---- MODULE Spec2Model ----
(***************************************************************************)
(* BMP280SPI (BMP280.py): a driver for a BMP280 pressure/temperature       *)
(* sensor behind an SPI port.  The model follows the driver one bus        *)
(* exchange at a time; the sensor and the bus are the environment.         *)
(*                                                                         *)
(* Python floats are modelled as exact rationals [k, n, d] (n/d in lowest  *)
(* terms, d > 0); the rounding of binary floating point is not modelled.   *)
(* The sampled calibration sets and bursts are chosen so that every        *)
(* intermediate value of the compensation stays within the range of the    *)
(* model checker's integers.                                               *)
(***************************************************************************)
EXTENDS Integers, Sequences, FiniteSets, TLC

VARIABLES
    chipId,    \* sensor: content of the ID register
    calib,     \* sensor: the 12 coefficient words, as <<low, high>> byte pairs
    pc,        \* where the driver is: "new", "init", "idle", "failed", "poll", "temp", "press"
    idx,       \* __init__: index (1..12) of the next coefficient to read
    inst,      \* TRUE once __init__ has returned an instance to the caller
    dig,       \* self._dig_T1 .. self._dig_P9, in the order they are read
    temp,      \* self._temp
    press,     \* self._press
    t_fine,    \* read(): the local t_fine between the two data reads
    var1,      \* read(): the last value of the local var1 tested at the guard
    ret,       \* what the last finished operation gave the caller
    op,        \* the operation running or last run
    log,       \* the bus exchanges issued by the operation running or last run
    pre,       \* the cached <<temp, press>> when the running read() began
    lastPair,  \* the pair returned by the most recent read() that returned a pair
    lastTemp,  \* the temperature computed by the most recent read() that computed one
    arg,       \* primitives: a response of 2 or 3 bytes
    prim,      \* primitives: the primitive applied to arg
    res        \* primitives: its result

vars == <<chipId, calib, pc, idx, inst, dig, temp, press, t_fine, var1, ret, op,
          log, pre, lastPair, lastTemp, arg, prim, res>>

drv == <<chipId, calib, pc, idx, inst, dig, temp, press, t_fine, var1, ret, op,
         log, pre, lastPair, lastTemp>>

Byte == 0..255

-----------------------------------------------------------------------------
(* Python integer operators, on unbounded two's complement integers.       *)

RECURSIVE Pow2(_)
Pow2(n) == IF n = 0 THEN 1 ELSE 2 * Pow2(n - 1)

Shl(a, n) == a * Pow2(n)

Shr(a, n) == a \div Pow2(n)

BitNot(a) == (-a) - 1

RECURSIVE BitOr(_, _)
BitOr(a, b) ==
    IF a = 0 THEN b
    ELSE IF b = 0 THEN a
    ELSE IF a = -1 \/ b = -1 THEN -1
    ELSE (IF a % 2 = 1 \/ b % 2 = 1 THEN 1 ELSE 0) + 2 * BitOr(a \div 2, b \div 2)

RECURSIVE BitAnd(_, _)
BitAnd(a, b) ==
    IF a = 0 \/ b = 0 THEN 0
    ELSE IF a = -1 THEN b
    ELSE IF b = -1 THEN a
    ELSE (IF a % 2 = 1 /\ b % 2 = 1 THEN 1 ELSE 0) + 2 * BitAnd(a \div 2, b \div 2)

-----------------------------------------------------------------------------
(* class REG(IntEnum)                                                      *)

ID == 208         \* 0xD0
ID_VAL == 88      \* 0x58
STATUS == 243     \* 0xF3
CONTROL == 244    \* 0xF4
TEMP_MSB == 250   \* 0xFA
PRESS_MSB == 247  \* 0xF7
T1 == 136         \* 0x88
T2 == 138
T3 == 140
P1 == 142
P2 == 144
P3 == 146
P4 == 148
P5 == 150
P6 == 152
P7 == 154
P8 == 156
P9 == 158         \* 0x9E

\* The coefficient registers in the order __init__ reads them.
CoefRegs == <<T1, T2, T3, P1, P2, P3, P4, P5, P6, P7, P8, P9>>

UnsignedNone == {}

\* The coefficients __init__ reads with _readU16 (the others with _readS16).
UnsignedCoefs == {1, 4}

-----------------------------------------------------------------------------
(* Floats as exact rationals.                                              *)

Abs(x) == IF x < 0 THEN -x ELSE x

RECURSIVE GCD(_, _)
GCD(a, b) == IF b = 0 THEN a ELSE GCD(b, a % b)

NoneV == [k |-> "None", n |-> 0, d |-> 1]

Rat(n, d) ==
    LET s == IF d < 0 THEN -1 ELSE 1
        g == GCD(Abs(n), Abs(d))
    IN  [k |-> "float", n |-> s * (n \div g), d |-> s * (d \div g)]

float(i) == [k |-> "float", n |-> i, d |-> 1]

FMul(a, b) ==
    LET g1 == GCD(Abs(a.n), b.d)
        g2 == GCD(Abs(b.n), a.d)
    IN  Rat((a.n \div g1) * (b.n \div g2), (a.d \div g2) * (b.d \div g1))

\* a / b for b # 0 (Python raises ZeroDivisionError for b = 0; see ReadPress)
FDiv(a, b) == FMul(a, Rat(b.d, b.n))

FAdd(a, b) ==
    LET g == GCD(a.d, b.d)
        l == (a.d \div g) * b.d
    IN  Rat(a.n * (l \div a.d) + b.n * (l \div b.d), l)

FNeg(a) == [k |-> "float", n |-> -a.n, d |-> a.d]

FSub(a, b) == FAdd(a, FNeg(b))

\* int(x): truncation toward zero
int(a) == IF a.n >= 0 THEN a.n \div a.d ELSE -((-a.n) \div a.d)

-----------------------------------------------------------------------------
(* Raw register primitives, as functions of the bytes the exchange gave.   *)

\* The command of a register read: [register | 0x80]
ReadCmd(register) == <<BitOr(register, 128)>>

U16Swapped(data) == BitOr(Shl(data[1], 8), data[2])

\* _readU16: data[1] << 8 | data[0]   (sequences here count from 1)
readU16(data) == BitOr(Shl(data[2], 8), data[1])

S16Unsigned(result) == result

\* _readS16, after its call of _readU16
readS16(result) == IF result > 32767 THEN result - 65536 ELSE result

U24NoDrop(data) == float(BitOr(BitOr(Shl(data[1], 16), Shl(data[2], 8)), data[3]))

\* _readU24: float((data[0] << 16 | data[1] << 8 | data[2]) >> 4)
readU24(data) ==
    float(Shr(BitOr(BitOr(Shl(data[1], 16), Shl(data[2], 8)), data[3]), 4))

-----------------------------------------------------------------------------
(* The arithmetic of read().  c is the sequence of the 12 coefficients in  *)
(* the order of CoefRegs: c[1..3] = T1..T3, c[4..12] = P1..P9.             *)

\* lines 134-139: t_fine
TempFine(UT, c) ==
    LET v1 == FMul(FSub(FDiv(UT, float(16384)), FDiv(c[1], float(1024))), c[2])
        e  == FSub(FDiv(UT, float(131072)), FDiv(c[1], float(8192)))
        v2 == FMul(FMul(e, e), c[3])
    IN  int(FAdd(v1, v2))

\* line 141: self._temp
TempOf(tf) == FDiv(float(tf), float(5120))

\* line 146
PressX(tf) == FSub(FDiv(float(tf), float(2)), float(64000))

\* lines 148-152: var2
PressVar2(tf, c) ==
    LET x == PressX(tf)
        a == FDiv(FMul(FMul(x, x), c[9]), float(32768))
        b == FAdd(a, FMul(FMul(x, c[8]), float(2)))
    IN  FAdd(FDiv(b, float(4)), FMul(c[7], float(65536)))

\* lines 154-157: var1
PressVar1(tf, c) ==
    LET x == PressX(tf)
        a == FDiv(FAdd(FDiv(FMul(FMul(c[6], x), x), float(534288)), FMul(c[5], x)),
                  float(534288))
    IN  FMul(FAdd(float(1), FDiv(a, float(32768))), c[4])

GuardNever(v1) == FALSE

\* line 159: if var1 == 0.0
DegenerateGuard(v1) == v1.n = 0

\* lines 161-169: p (2147483648.0 is divided out as 65536.0 * 32768.0)
PressOf(UP, v1, v2, c) ==
    LET p0 == FSub(float(1048576), UP)
        p1 == FDiv(FMul(FSub(p0, FDiv(v2, float(4096))), float(6250)), v1)
        w1 == FDiv(FDiv(FMul(FMul(c[12], p1), p1), float(65536)), float(32768))
        w2 == FDiv(FMul(p1, c[11]), float(32768))
    IN  FAdd(p1, FDiv(FAdd(FAdd(w1, w2), c[10]), float(16)))

\* line 122: 1000*(self._press/1.013e2), 1.013e2 taken as 1013/10
MbarOf(p) == FMul(float(1000), FDiv(p, Rat(1013, 10)))

-----------------------------------------------------------------------------
(* The sensor and the bus: the sampled answers of the environment.         *)

\* The largest number of STATUS polls the sensor answers "measuring" to.
MaxPolls == 2

\* ID register contents: a BMP280, a BME280, a dead bus.
IdSamples == {88, 96, 0}

\* Calibration sets <<T1, T2, T3, P1, .., P9>>: a regular one, the same with
\* P1 = 0 (var1 == 0.0), one with P1 > 32767 and negative P4, P7.
CalibSamples ==
    { <<27648, 26435, -1000, 25000, 0, 0, 2855, 0, 0, 15500, -16384, 0>>,
      <<27648, 26435, -1000, 0, 0, 0, 2855, 0, 0, 15500, -16384, 0>>,
      <<0, 4000, 0, 50000, 0, 0, -100, 0, 0, -160, 0, 0>> }

\* The two register bytes of a 16-bit word, low byte first.
Word(v) == <<v % 256, (v % 65536) \div 256>>

\* STATUS answers: idle, copying NVM (bit 0), measuring (bit 3), both.
StatusBytes == {0, 1, 8, 9}

DevBusy(s) == (s \div 8) % 2 = 1

TempBursts == { <<128, 0, 0>>, <<130, 0, 0>> }

PressBursts == { <<176, 0, 0>>, <<176, 0, 15>>, <<192, 16, 0>> }

-----------------------------------------------------------------------------
(* The exchanges of SpiPort.exchange(out, readlen), as the log keeps them. *)

Xchg(out, n, resp) == [out |-> out, n |-> n, resp |-> resp, ok |-> TRUE]

XchgFailed(out, n) == [out |-> out, n |-> n, resp |-> <<>>, ok |-> FALSE]

\* _readU8: exchange([register | 0x80], 1)[0]
readU8(data) == data[1]

TriggerCmdRaw == <<CONTROL, 254>>

\* line 127: [REG.CONTROL & ~0x80, 0xFE]
TriggerCmd == <<BitAnd(CONTROL, BitNot(128)), 254>>

IdAny(v) == TRUE

\* line 62: the ID register holds ID_VAL
IdMatches(v) == v = ID_VAL

\* lines 66-77: float(self._readU16(..)) or float(self._readS16(..))
CoefValue(i, data) ==
    IF i \in UnsignedCoefs THEN float(readU16(data))
    ELSE float(readS16(readU16(data)))

MeasuringBit0(status) == BitAnd(status, 1) # 0

\* line 129: self._readU8(REG.STATUS) & 0x08
Measuring(status) == BitAnd(status, 8) # 0

PairSwapped(t, p) == <<p, t>>

\* line 172: (self._temp, self._press)
PairOf(t, p) == <<t, p>>

IsStatus(e) == e.out = ReadCmd(STATUS)

NStatus(l) == Cardinality({i \in 1..Len(l) : IsStatus(l[i])})

Result(kind, v) == [k |-> kind, v |-> v]

-----------------------------------------------------------------------------
Init ==
    /\ chipId \in IdSamples
    /\ calib \in {[i \in 1..12 |-> Word(c[i])] : c \in CalibSamples}
    /\ pc = "new"
    /\ idx = 1
    /\ inst = FALSE
    /\ dig = [i \in 1..12 |-> NoneV]
    /\ temp = NoneV
    /\ press = NoneV
    /\ t_fine = 0
    /\ var1 = NoneV
    /\ ret = Result("none", <<>>)
    /\ op = "none"
    /\ log = <<>>
    /\ pre = <<NoneV, NoneV>>
    /\ lastPair = <<NoneV, NoneV>>
    /\ lastTemp = NoneV
    /\ arg = <<>>
    /\ prim = "none"
    /\ res = 0

\* __init__, lines 58-63: clear the cache, read the ID register, compare.
InitReadId ==
    /\ pc = "new"
    /\ LET data == <<chipId>> IN
        /\ log' = <<Xchg(ReadCmd(ID), 1, data)>>
        /\ IF IdMatches(readU8(data))
           THEN pc' = "init" /\ ret' = ret
           ELSE pc' = "failed" /\ ret' = Result("RuntimeError", <<>>)
    /\ op' = "init"
    /\ idx' = 1
    /\ temp' = NoneV
    /\ press' = NoneV
    /\ UNCHANGED <<chipId, calib, inst, dig, t_fine, var1, pre, lastPair, lastTemp,
                   arg, prim, res>>

\* __init__, lines 66-77: one coefficient; after the twelfth the instance
\* is returned.
InitReadCoef ==
    /\ pc = "init"
    /\ LET data == calib[idx] IN
        /\ log' = Append(log, Xchg(ReadCmd(CoefRegs[idx]), 2, data))
        /\ dig' = [dig EXCEPT ![idx] = CoefValue(idx, data)]
    /\ IF idx = 12
       THEN pc' = "idle" /\ inst' = TRUE /\ ret' = Result("instance", <<>>) /\ idx' = idx
       ELSE pc' = "init" /\ inst' = inst /\ ret' = ret /\ idx' = idx + 1
    /\ UNCHANGED <<chipId, calib, temp, press, t_fine, var1, op, pre, lastPair,
                   lastTemp, arg, prim, res>>

\* read(), line 127: the write that starts one forced measurement.
ReadTrigger ==
    /\ pc = "idle" /\ inst
    /\ op' = "read"
    /\ log' = <<Xchg(TriggerCmd, 0, <<>>)>>
    /\ pre' = <<temp, press>>
    /\ ret' = Result("none", <<>>)
    /\ pc' = "poll"
    /\ UNCHANGED <<chipId, calib, idx, inst, dig, temp, press, t_fine, var1,
                   lastPair, lastTemp, arg, prim, res>>

\* read(), lines 129-130: one poll of STATUS (and the sleep when measuring).
ReadPoll ==
    /\ pc = "poll"
    /\ NStatus(log) <= MaxPolls
    /\ \E s \in StatusBytes :
        /\ DevBusy(s) => NStatus(log) < MaxPolls
        /\ log' = Append(log, Xchg(ReadCmd(STATUS), 1, <<s>>))
        /\ pc' = IF Measuring(readU8(<<s>>)) THEN "poll" ELSE "temp"
    /\ UNCHANGED <<chipId, calib, idx, inst, dig, temp, press, t_fine, var1, ret, op,
                   pre, lastPair, lastTemp, arg, prim, res>>

\* read(), lines 132-141: the temperature burst, t_fine and self._temp.
ReadTemp ==
    /\ pc = "temp"
    /\ \E b \in TempBursts :
        LET tf == TempFine(readU24(b), dig) IN
        /\ log' = Append(log, Xchg(ReadCmd(TEMP_MSB), 3, b))
        /\ t_fine' = tf
        /\ temp' = TempOf(tf)
        /\ lastTemp' = TempOf(tf)
    /\ pc' = "press"
    /\ UNCHANGED <<chipId, calib, idx, inst, dig, press, var1, ret, op, pre,
                   lastPair, arg, prim, res>>

\* read(), lines 144-172: the pressure burst, the guard, self._press and
\* the value returned.
ReadPress ==
    /\ pc = "press"
    /\ \E b \in PressBursts :
        LET UP == readU24(b)
            v1 == PressVar1(t_fine, dig)
            v2 == PressVar2(t_fine, dig)
        IN
        /\ log' = Append(log, Xchg(ReadCmd(PRESS_MSB), 3, b))
        /\ var1' = v1
        /\ IF DegenerateGuard(v1)
           THEN /\ ret' = Result("int", <<0>>)
                /\ UNCHANGED <<press, lastPair>>
           ELSE IF v1.n = 0
           THEN /\ ret' = Result("ZeroDivisionError", <<>>)
                /\ UNCHANGED <<press, lastPair>>
           ELSE /\ press' = PressOf(UP, v1, v2, dig)
                /\ ret' = Result("tuple", PairOf(temp, press'))
                /\ lastPair' = ret'.v
    /\ pc' = "idle"
    /\ UNCHANGED <<chipId, calib, idx, inst, dig, temp, t_fine, op, pre, lastTemp,
                   arg, prim, res>>

\* The command and read length of the exchange the driver issues next.
NextOut ==
    CASE pc = "new"   -> <<ReadCmd(ID), 1>>
      [] pc = "init"  -> <<ReadCmd(CoefRegs[idx]), 2>>
      [] pc = "idle"  -> <<TriggerCmd, 0>>
      [] pc = "poll"  -> <<ReadCmd(STATUS), 1>>
      [] pc = "temp"  -> <<ReadCmd(TEMP_MSB), 3>>
      [] pc = "press" -> <<ReadCmd(PRESS_MSB), 3>>

\* SpiPort.exchange raises: the exception leaves __init__ or read().
BusFault ==
    /\ \/ pc \in {"new", "init", "temp", "press"}
       \/ pc = "idle" /\ inst
       \/ pc = "poll" /\ NStatus(log) <= MaxPolls
    /\ log' = (IF pc \in {"new", "idle"} THEN <<>> ELSE log)
                 \o <<XchgFailed(NextOut[1], NextOut[2])>>
    /\ op' = (IF pc = "new" THEN "init" ELSE IF pc = "idle" THEN "read" ELSE op)
    /\ pre' = (IF pc = "idle" THEN <<temp, press>> ELSE pre)
    /\ ret' = Result("BusError", <<>>)
    /\ pc' = (IF pc \in {"new", "init"} THEN "failed" ELSE "idle")
    /\ UNCHANGED <<chipId, calib, idx, inst, dig, temp, press, t_fine, var1,
                   lastPair, lastTemp, arg, prim, res>>

Accessor(name, value) ==
    /\ pc = "idle" /\ inst
    /\ op' = name
    /\ ret' = value
    /\ log' = <<>>
    /\ UNCHANGED <<chipId, calib, pc, idx, inst, dig, temp, press, t_fine, var1,
                   pre, lastPair, lastTemp, arg, prim, res>>

\* lines 109-112
Temperature == Accessor("temperature", Result("value", <<temp>>))

\* lines 114-117
Pressure == Accessor("pressure", Result("value", <<press>>))

\* lines 119-122: None / 1.013e2 raises TypeError
Mbar ==
    Accessor("mbar", IF press.k = "None" THEN Result("TypeError", <<>>)
                     ELSE Result("value", <<MbarOf(press)>>))

\* lines 101-107
Comp == Accessor("comp", Result("dict", dig))

Next ==
    \/ InitReadId
    \/ InitReadCoef
    \/ ReadTrigger
    \/ ReadPoll
    \/ ReadTemp
    \/ ReadPress
    \/ BusFault
    \/ Temperature
    \/ Pressure
    \/ Mbar
    \/ Comp

Spec == Init /\ [][Next]_vars

-----------------------------------------------------------------------------
(* The raw register primitives on their own: a response is drawn, one      *)
(* primitive is applied to it.                                             *)

ByteSamples == {0, 1, 15, 16, 127, 128, 240, 255}

InitPrim ==
    /\ arg \in (Byte \X Byte) \cup (ByteSamples \X ByteSamples \X Byte)
    /\ prim = "none"
    /\ res = 0
    /\ chipId = ID_VAL
    /\ calib = <<>>
    /\ pc = "new"
    /\ idx = 1
    /\ inst = FALSE
    /\ dig = <<>>
    /\ temp = NoneV
    /\ press = NoneV
    /\ t_fine = 0
    /\ var1 = NoneV
    /\ ret = Result("none", <<>>)
    /\ op = "none"
    /\ log = <<>>
    /\ pre = <<NoneV, NoneV>>
    /\ lastPair = <<NoneV, NoneV>>
    /\ lastTemp = NoneV

ApplyU16 ==
    /\ prim = "none" /\ Len(arg) = 2
    /\ prim' = "readU16"
    /\ res' = readU16(arg)
    /\ UNCHANGED <<arg, drv>>

ApplyS16 ==
    /\ prim = "none" /\ Len(arg) = 2
    /\ prim' = "readS16"
    /\ res' = readS16(readU16(arg))
    /\ UNCHANGED <<arg, drv>>

ApplyU24 ==
    /\ prim = "none" /\ Len(arg) = 3
    /\ prim' = "readU24"
    /\ res' = readU24(arg)
    /\ UNCHANGED <<arg, drv>>

NextPrim == ApplyU16 \/ ApplyS16 \/ ApplyU24

SpecPrim == InitPrim /\ [][NextPrim]_vars

-----------------------------------------------------------------------------
(* Reading the log.                                                        *)

LogIdx == 1..Len(log)

\* the exchanges whose command byte is c
Cmds(c) == {i \in LogIdx : log[i].out = <<c>>}

\* the STATUS reads answered "measuring" (bit 0x08 set)
BusyAnswers == {i \in Cmds(243) : log[i].ok /\ (log[i].resp[1] \div 8) % 2 = 1}

LastEntry == log[Len(log)]

\* the running or last operation is a read() that has finished
ReadDone == op = "read" /\ pc = "idle"

\* ... and its pressure burst was read
PressRead == ReadDone /\ LastEntry.out = <<247>> /\ LastEntry.ok

-----------------------------------------------------------------------------
\* C1: over a sensor whose ID register holds anything but 0x58, __init__
\* fails: the only exchange is the 1-byte read of the ID register, nothing
\* is addressed to 0x88..0x9E, and no instance reaches the caller.
C1_IdentityMismatch ==
    (chipId # 88 /\ pc # "new") =>
        /\ pc = "failed"
        /\ ~inst
        /\ Len(log) = 1
        /\ log[1].out = <<208>> /\ log[1].n = 1
        /\ \A i \in LogIdx : log[i].out[1] \notin 136..158
        /\ log[1].ok => ret.k = "RuntimeError"

C1_Witness == chipId = 96 /\ pc = "failed" /\ ret.k = "RuntimeError" /\ log[1].resp = <<96>>

\* C2: if STATUS answers "measuring" N times and then "ready", read() reads
\* STATUS exactly N+1 times, all before the first data read, none after.
C2_PollCount ==
    (op = "read" /\ Cmds(250) \cup Cmds(247) # {}) =>
        /\ Cardinality(Cmds(243)) = Cardinality(BusyAnswers) + 1
        /\ \A i \in Cmds(243) : \A j \in Cmds(250) \cup Cmds(247) : i < j
        /\ \A i \in Cmds(243) : i \in BusyAnswers <=> (i + 1) \in Cmds(243)

C2_Witness ==
    /\ ReadDone /\ ret.k = "tuple"
    /\ Cardinality(BusyAnswers) = 2 /\ Cardinality(Cmds(243)) = 3

\* C3: when var1 is 0.0 read() does not divide by it, reports the pressure
\* as unavailable and still returns the temperature of this call, which it
\* has cached.
C3_DegenerateKeepsTemperature ==
    (PressRead /\ var1.n = 0) =>
        /\ ret.k = "tuple"
        /\ ret.v[1] = temp /\ temp.k = "float"
        /\ ret.v[2] = NoneV

\* C4: while no pressure is cached, mbar returns "unavailable" as pressure
\* does, neither a number nor an error.
C4_MbarUnavailable ==
    (op = "mbar" /\ press = NoneV) => (ret.k = "value" /\ ret.v = <<NoneV>>)

\* C5: a successful __init__ makes 13 exchanges: the 1-byte read of ID, then
\* one 2-byte read per coefficient register 0x88, 0x8A, .., 0x9E in that
\* order; T1 and P1 are kept unsigned, the other ten signed.
C5_ConstructionExchanges ==
    (op = "init" /\ pc \in {"init", "idle"}) =>
        LET done == IF pc = "idle" THEN 12 ELSE idx - 1 IN
        /\ Len(log) = done + 1
        /\ pc = "idle" => Len(log) = 13 /\ inst
        /\ log[1] = [out |-> <<208>>, n |-> 1, resp |-> <<88>>, ok |-> TRUE]
        /\ \A i \in LogIdx : log[i].n <= 2
        /\ \A j \in 1..done :
            LET e == log[j + 1]
                u == e.resp[2] * 256 + e.resp[1]
            IN  /\ e.out = <<136 + 2 * (j - 1)>> /\ e.n = 2 /\ e.ok
                /\ e.resp = calib[j]
                /\ dig[j] = [k |-> "float", d |-> 1,
                             n |-> IF j \in {1, 4} \/ u <= 32767 THEN u ELSE u - 65536]

C5_Witness ==
    /\ op = "init" /\ pc = "idle" /\ Len(log) = 13
    /\ dig[4].n = 50000 /\ dig[7].n = -100

\* C6: a read() issues one write of (0x74, 0xFE) reading nothing back, then
\* one or more 1-byte reads of STATUS, then one 3-byte read of TEMP_MSB,
\* then one 3-byte read of PRESS_MSB; no data register is read while the
\* last STATUS answer had bit 0x08 set, and nothing follows the data reads.
C6_ReadOrder ==
    op = "read" =>
        /\ Len(log) >= 1
        /\ log[1].out = <<116, 254>> /\ log[1].n = 0 /\ log[1].resp = <<>>
        /\ \A i \in LogIdx \ {1} : log[i].out \in {<<243>>, <<250>>, <<247>>}
        /\ \A i \in Cmds(243) : log[i].n = 1
        /\ \A i \in Cmds(250) :
            /\ log[i].n = 3
            /\ i >= 3 /\ 2..(i - 1) \subseteq Cmds(243)
            /\ log[i - 1].ok /\ (i - 1) \notin BusyAnswers
        /\ \A i \in Cmds(247) :
            /\ log[i].n = 3
            /\ i = Len(log)
            /\ (i - 1) \in Cmds(250) /\ log[i - 1].ok
        /\ (ReadDone /\ ret.k # "BusError") => Cmds(247) # {}

C6_Witness ==
    /\ ReadDone /\ ret.k = "tuple" /\ Len(log) = 5
    /\ log[2].resp = <<8>> /\ log[3].resp = <<1>>
    /\ log[4].out = <<250>> /\ log[5].out = <<247>>

C8_ReadU24 ==
    prim = "readU24" =>
        /\ res = [k |-> "float", d |-> 1,
                  n |-> (arg[1] * 65536 + arg[2] * 256 + arg[3]) \div 16]
        /\ res.n = arg[1] * 4096 + arg[2] * 16 + (arg[3] \div 16)
        /\ res.n \in 0..1048575

C8_Witness == prim = "readU24" /\ arg = <<128, 1, 31>> /\ res.n = 524305

\* C9 as stated: temperature and pressure return the pair the most recent
\* read() that returned a pair returned (None before any).
C9_CacheIsLastPair ==
    /\ op = "temperature" => ret = Result("value", <<lastPair[1]>>)
    /\ op = "pressure" => ret = Result("value", <<lastPair[2]>>)

C9_State ==
    /\ op = "temperature" => ret = Result("value", <<lastTemp>>)
    /\ op = "pressure" => ret = Result("value", <<lastPair[2]>>)
    /\ (ReadDone /\ ret.k = "tuple") =>
        /\ ret.v = <<temp, press>>
        /\ lastPair = ret.v /\ lastTemp = ret.v[1]
        /\ temp.k = "float" /\ press.k = "float"
    /\ (inst /\ lastTemp = NoneV) => (temp = NoneV /\ press = NoneV)

C9_Frame ==
    /\ op' \in {"temperature", "pressure", "mbar", "comp"} =>
        (temp' = temp /\ press' = press /\ dig' = dig)
    /\ inst => dig' = dig

\* C9, amended: pressure returns the pressure of the most recent read() that
\* returned a pair, temperature the temperature of the most recent read()
\* that got as far as computing one (both None before any); after a read()
\* that returns a pair the two are that pair; the accessors and comp change
\* neither the cached values nor the coefficients, and read() does not
\* change the coefficients.
C9_CacheAmended == [](C9_State) /\ [][C9_Frame]_vars

C9_Witness ==
    /\ op = "temperature" /\ ret = Result("value", <<lastTemp>>)
    /\ lastTemp.k = "float" /\ lastPair[2].k = "float"
    /\ lastPair[1] # lastTemp

\* C10: read() caches the temperature before the pressure burst and the
\* pressure only at the end: a read() stopped by the guard or by a bus error
\* in the PRESS_MSB exchange leaves the new temperature and the old
\* pressure; one that fails at the trigger or at a STATUS poll leaves both.
C10_PartialUpdate ==
    /\ pc \in {"poll", "temp"} => <<temp, press>> = pre
    /\ (pc = "press" \/ (ReadDone /\ LastEntry.out = <<247>>)) =>
        LET i == CHOOSE j \in Cmds(250) : TRUE IN
        /\ temp = Rat(TempFine(readU24(log[i].resp), dig), 5120)
        /\ (pc = "press" \/ ~LastEntry.ok) => press = pre[2]
    /\ (PressRead /\ var1.n = 0) => (ret.k = "int" /\ press = pre[2])
    /\ (ReadDone /\ ret.k = "BusError" /\ LastEntry.out \in {<<116, 254>>, <<243>>}) =>
        <<temp, press>> = pre

C10_Witness ==
    /\ ReadDone /\ LastEntry.out = <<247>> /\ ~LastEntry.ok
    /\ press.k = "float" /\ press = pre[2] /\ press = lastPair[2]
    /\ temp.k = "float" /\ temp # pre[1] /\ temp # lastPair[1]

====
